---- MODULE Spec2Model ----
(***************************************************************************)
(* Model of the multi-projection Canvas of src/src/canvas.py: the ordered  *)
(* registry of Projections (media path + 4-point target quad), the         *)
(* selection index, the handle drag driven by mouse press/move/release,    *)
(* and the preset codec (serialize / deserialize).                         *)
(*                                                                         *)
(* Coordinates are the QPointF coordinates of the source; the canvas sizes *)
(* and pointer positions used are whole numbers, for which the source's    *)
(* float arithmetic (min(w,h) * 0.1, handle_radius * 1.5) is exact.        *)
(* Indices (selected_idx, drag_idx, the hit-test result) are 0-based as in *)
(* the source, with -1 for "none"; TLA+ sequences are 1-based, so          *)
(* projections[k] of the source is projections[k + 1] here.                *)
(***************************************************************************)
EXTENDS Integers, Sequences, FiniteSets, TLC

VARIABLES
    projections,    \* Canvas.projections: list of Projection
    selected_idx,   \* Canvas.selected_idx
    drag_idx,       \* Canvas.drag_idx
    live_warp,      \* Canvas.live_warp
    show_mesh,      \* Canvas.show_mesh
    width,          \* QWidget.width()
    height,         \* QWidget.height()
    lastOp,         \* history: name of the handler that ran last
    ev,             \* history: that handler's input and outcome
    grab,           \* history: the hit press whose drag is still in progress
    only_added,     \* history: no handler but add_media has run so far
    held            \* history: the Projection whose handle the pointer holds

vars == <<projections, selected_idx, drag_idx, live_warp, show_mesh,
          width, height, lastOp, ev, grab, only_added, held>>

----------------------------------------------------------------------------
(* Bounds of the model *)

\* most Projections the registry holds at once
MaxProj == 2

(* Program constants *)

handle_radius == 10
offset_step == 40
batch_step == 10

----------------------------------------------------------------------------
(* Inputs *)

\* canvas size (width, height) the widget is shown at
Sizes == { <<600, 400>> }

\* pointer positions of mouse events, inside and outside the canvas
Positions == { <<565, 365>>, <<-20, 900>> }

Buttons == { "left", "right" }

\* media paths: two loadable files, an existing file that is no media, and
\* a path that does not exist
Paths == { "a.png", "b.png", "corrupt.png", "missing.png" }

\* os.path.exists(path)
PathExists(path) == path \in { "a.png", "b.png", "corrupt.png" }

\* VideoSource.load(path) returns (TRUE) or raises ValueError (FALSE)
Loadable(path) == path \in { "a.png", "b.png" }

----------------------------------------------------------------------------
(* Helpers *)

Min(a, b) == IF a <= b THEN a ELSE b
Max(a, b) == IF a >= b THEN a ELSE b
Abs(a) == IF a >= 0 THEN a ELSE -a

\* (pos - pt).manhattanLength()
manhattanLength(pos, pt) == Abs(pos[1] - pt[1]) + Abs(pos[2] - pt[2])

\* Canvas._default_quad: inset by 10% of the shorter side
default_quad(w, h) ==
    LET ww == Max(1, w)
        hh == Max(1, h)
        margin == Min(ww, hh) \div 10
    IN  << <<margin, margin>>, <<ww - margin, margin>>,
           <<ww - margin, hh - margin>>, <<margin, hh - margin>> >>

\* the quad Projection.__init__ falls back to when given none
FallbackQuad == << <<200, 150>>, <<800, 150>>, <<800, 550>>, <<200, 550>> >>

\* the identity of a newly constructed object: one that no Projection of
\* the list has
FreshId(projs) ==
    LET used == { projs[k].id : k \in DOMAIN projs }
    IN  CHOOSE i \in 1 .. (Len(projs) + 1) :
            i \notin used /\ \A j \in 1 .. (i - 1) : j \in used

\* Projection.__init__ once VideoSource.load has succeeded
Projection(path, quad, id) ==
    [id |-> id, path |-> path,
     target_quad |-> IF quad # << >> THEN quad ELSE FallbackQuad]

----------------------------------------------------------------------------
(* Registry operations *)

\* a reset to the fixed quad of Projection.__init__ instead of the canvas
\* default
ResetQuads_Fallback(projs, which, w, h) ==
    [k \in DOMAIN projs |->
        IF (k - 1) \in which
        THEN [projs[k] EXCEPT !.target_quad = FallbackQuad]
        ELSE projs[k]]

\* the registry with the quad of every Projection whose 0-based index is in
\* `which` replaced by the default quad
ResetQuads(projs, which, w, h) ==
    [k \in DOMAIN projs |->
        IF (k - 1) \in which
        THEN [projs[k] EXCEPT !.target_quad = default_quad(w, h)]
        ELSE projs[k]]

\* a reset of every Projection, whether one is selected or not
ResetTargets_All(projs, sel) == 0 .. (Len(projs) - 1)

\* Canvas.reset_quad: which Projections are reset
ResetTargets(projs, sel) ==
    IF sel >= 0 /\ sel < Len(projs) THEN { sel } ELSE 0 .. (Len(projs) - 1)

\* the quad add_media gives the i-th (0-based) path of a batch
StaggeredQuad(base, start_offset, i) ==
    [k \in DOMAIN base |->
        << base[k][1] + start_offset + i * batch_step,
           base[k][2] + start_offset + i * batch_step >>]

\* an add_media loop that stops at the first path that fails to load
RECURSIVE AddLoop_Abort(_, _, _, _, _)
AddLoop_Abort(paths, i, base, start_offset, acc) ==
    IF i >= Len(paths) THEN acc
    ELSE IF Loadable(paths[i + 1])
    THEN AddLoop_Abort(paths, i + 1, base, start_offset,
            [acc EXCEPT !.projs = Append(@, Projection(paths[i + 1],
                                     StaggeredQuad(base, start_offset, i), FreshId(@)))])
    ELSE [acc EXCEPT !.warnings = @ + 1]

\* Canvas.add_media, the loop over the batch from its i-th path on: a path
\* that loads is appended, one that does not is reported and skipped
RECURSIVE AddLoop(_, _, _, _, _)
AddLoop(paths, i, base, start_offset, acc) ==
    IF i >= Len(paths) THEN acc
    ELSE LET path == paths[i + 1]
             quad == StaggeredQuad(base, start_offset, i)
         IN  IF Loadable(path)
             THEN AddLoop(paths, i + 1, base, start_offset,
                          [acc EXCEPT !.projs = Append(@, Projection(path, quad, FreshId(@)))])
             ELSE AddLoop(paths, i + 1, base, start_offset,
                          [acc EXCEPT !.warnings = @ + 1])

\* an add_media that leaves selected_idx as it was
SelectAfterAdd_Keep(projs, sel) == sel

\* Canvas.add_media: selection after the batch
SelectAfterAdd(projs, sel) ==
    IF projs # << >> /\ sel = -1 THEN 0 ELSE sel

\* select_next without its early return on an empty registry
SelectNextEmpty_Never(projs) == FALSE

\* Canvas.select_next: the early return on an empty registry
SelectNextEmpty(projs) == projs = << >>

\* an advance that stops at the ends of the list instead of wrapping round
SelectNextIdx_NoWrap(projs, sel, direction) ==
    Max(0, Min(Len(projs) - 1, sel + direction))

\* Canvas.select_next: (selected_idx + direction) % len(projections)
SelectNextIdx(projs, sel, direction) == (sel + direction) % Len(projs)

----------------------------------------------------------------------------
(* Interaction *)

\* the handles (0-based projection index, 0-based handle index) under pos:
\* those within Manhattan distance handle_radius * 1.5 of it
HandlesUnder(projs, pos) ==
    UNION { { <<k - 1, i - 1>> :
                i \in { j \in DOMAIN projs[k].target_quad :
                          2 * manhattanLength(pos, projs[k].target_quad[j])
                             <= 3 * handle_radius } } :
            k \in DOMAIN projs }

\* Canvas._hit_handle: the first handle under pos in list order, else (-1,-1)
hit_handle(projs, pos) ==
    LET under == HandlesUnder(projs, pos)
    IN  IF under = {} THEN <<-1, -1>>
        ELSE CHOOSE ph \in under :
                \A o \in under :
                    \/ ph[1] < o[1]
                    \/ ph[1] = o[1] /\ ph[2] <= o[2]

\* a press that pops the struck Projection and does not append it again
RaiseToTop_Drop(projs, pidx) ==
    SubSeq(projs, 1, pidx) \o SubSeq(projs, pidx + 2, Len(projs))

\* a press that leaves the struck Projection where it is in the list
RaiseToTop_Stay(projs, pidx) == projs

\* mousePressEvent: projections.append(projections.pop(pidx))
RaiseToTop(projs, pidx) ==
    IF 0 <= pidx /\ pidx < Len(projs)
    THEN Append(SubSeq(projs, 1, pidx) \o SubSeq(projs, pidx + 2, Len(projs)),
                projs[pidx + 1])
    ELSE projs

\* mousePressEvent: selected_idx after a hit on pidx
SelectAfterHit(projs, pidx) ==
    IF 0 <= pidx /\ pidx < Len(projs) THEN Len(projs) - 1 ELSE pidx

\* a clamp without its lower bound
Clamp_NoFloor(v, limit) == Min(limit, v)

\* mouseMoveEvent: max(0, min(limit, v))
Clamp(v, limit) == Max(0, Min(limit, v))

\* mouseMoveEvent: the guard under which a move writes a point
Dragging(projs, sel, drag) == drag >= 0 /\ 0 <= sel /\ sel < Len(projs)

\* a move that writes into the bottom Projection, whichever is selected
WriteHandle_Bottom(projs, sel, drag, pt) ==
    [projs EXCEPT ![1].target_quad[drag + 1] = pt]

\* mouseMoveEvent: target_quad[drag] = pt of projections[sel]
WriteHandle(projs, sel, drag, pt) ==
    [projs EXCEPT ![sel + 1].target_quad[drag + 1] = pt]

\* a release that never ends the drag
ReleaseDrag_Keep(button, drag) == drag

\* mouseReleaseEvent: the new drag_idx
ReleaseDrag(button, drag) == IF button = "left" THEN -1 ELSE drag

----------------------------------------------------------------------------
(* Preset codec *)

(* A preset document is a record; an absent key, None and an empty value   *)
(* (which the source treats alike: `not projections`, `if tq`,             *)
(* `if media_path`, `... or []`) are << >> or "".  A flag is << >> when    *)
(* absent and <<b>> when present.  An entry of a target_quad is a list of  *)
(* numbers; `for x, y in tq` raises on one that is not a pair.             *)

\* Canvas.serialize: one item of "projections"
SerializeItem(p) ==
    [media_path |-> p.path,
     target_quad |-> [k \in DOMAIN p.target_quad |->
                        << p.target_quad[k][1], p.target_quad[k][2] >>]]

\* Canvas.serialize
serialize(projs, lw, sm) ==
    [live_warp |-> <<lw>>, show_mesh |-> <<sm>>,
     projections |-> [k \in DOMAIN projs |-> SerializeItem(projs[k])],
     media_path |-> "", target_quad |-> << >>]

\* bool(data.get(key, True))
FlagOf(field) == IF field = << >> THEN TRUE ELSE field[1]

\* [QPointF(float(x), float(y)) for x, y in tq] raises
Malformed(tq) == \E k \in DOMAIN tq : Len(tq[k]) # 2

\* [QPointF(float(x), float(y)) for x, y in tq]
QuadOf(tq) == [k \in DOMAIN tq |-> << tq[k][1], tq[k][2] >>]

\* Canvas.deserialize, projections branch: the quad of one item
ItemQuad(tq, w, h) == IF Len(tq) = 4 THEN QuadOf(tq) ELSE default_quad(w, h)

\* Canvas.deserialize, projections branch: the item's quad is read
ItemReadsQuad(tq) == Len(tq) = 4

\* Canvas.deserialize, legacy branch: the top-level quad
LegacyQuad(tq, w, h) == IF tq # << >> THEN QuadOf(tq) ELSE default_quad(w, h)

\* Canvas.deserialize, projections branch: the item is constructed at all
ItemAccepted(media_path) == media_path # "" /\ PathExists(media_path)

\* Canvas.deserialize, the loop over the items from the i-th (1-based) on
RECURSIVE LoadLoop(_, _, _, _, _)
LoadLoop(items, i, w, h, acc) ==
    IF i > Len(items) THEN acc
    ELSE LET item == items[i]
         IN  IF ItemReadsQuad(item.target_quad) /\ Malformed(item.target_quad)
             THEN [acc EXCEPT !.raised = TRUE]
             ELSE IF ~ItemAccepted(item.media_path)
             THEN LoadLoop(items, i + 1, w, h, acc)
             ELSE IF Loadable(item.media_path)
             THEN LoadLoop(items, i + 1, w, h,
                    [acc EXCEPT
                       !.projs = Append(@, Projection(item.media_path,
                                            ItemQuad(item.target_quad, w, h), FreshId(@)))])
             ELSE LoadLoop(items, i + 1, w, h, [acc EXCEPT !.warnings = @ + 1])

\* Canvas.deserialize, legacy branch (no "projections")
LoadLegacy(data, w, h, acc) ==
    IF data.media_path = "" THEN acc
    ELSE IF data.target_quad # << >> /\ Malformed(data.target_quad)
    THEN [acc EXCEPT !.raised = TRUE]
    ELSE IF Loadable(data.media_path)
    THEN [acc EXCEPT
            !.projs = Append(@, Projection(data.media_path,
                                   LegacyQuad(data.target_quad, w, h), FreshId(@)))]
    ELSE [acc EXCEPT !.warnings = @ + 1]

\* Canvas.deserialize: the registry it builds, the warnings it prints and
\* whether it raised part-way
Load(data, w, h) ==
    LET acc0 == [projs |-> << >>, warnings |-> 0, raised |-> FALSE]
    IN  IF data.projections = << >>
        THEN LoadLegacy(data, w, h, acc0)
        ELSE LoadLoop(data.projections, 1, w, h, acc0)

\* Canvas.deserialize: selected_idx at the end
SelectAfterLoad(projs) == IF projs # << >> THEN 0 ELSE -1

----------------------------------------------------------------------------
(* Preset documents given to deserialize *)

Item(path, tq) == [media_path |-> path, target_quad |-> tq]

Doc(lw, sm, items, path, tq) ==
    [live_warp |-> lw, show_mesh |-> sm, projections |-> items,
     media_path |-> path, target_quad |-> tq]

QuadA == << <<45, 45>>, <<300, 45>>, <<565, 365>>, <<45, 200>> >>
QuadB == << <<50, 40>>, <<300, 300>>, <<560, 370>>, <<0, 400>> >>
\* a target_quad of the wrong length
QuadShort == << <<45, 45>>, <<300, 45>> >>
\* a target_quad of four entries, one of them no pair
QuadBad == << <<45, 45>>, <<300, 45, 7>>, <<565, 365>>, <<45, 200>> >>

Docs ==
    { \* an empty document
      Doc(<< >>, << >>, << >>, "", << >>),
      \* two surfaces on the same quad
      Doc(<<FALSE>>, <<TRUE>>, << Item("a.png", QuadA), Item("b.png", QuadA) >>, "", << >>),
      \* one loadable and one nonexistent path
      Doc(<< >>, << >>, << Item("a.png", << >>), Item("missing.png", QuadB) >>, "", << >>),
      \* a file that exists and is no media, then a loadable one
      Doc(<< >>, << >>, << Item("corrupt.png", QuadA), Item("b.png", QuadB) >>, "", << >>),
      \* a good item followed by one whose quad is malformed
      Doc(<< >>, << >>, << Item("a.png", QuadB), Item("b.png", QuadBad) >>, "", << >>),
      \* an item whose quad has the wrong length, top-level keys ignored
      Doc(<< >>, << >>, << Item("b.png", QuadShort) >>, "a.png", QuadA),
      \* legacy documents
      Doc(<<TRUE>>, <<FALSE>>, << >>, "a.png", QuadA),
      Doc(<< >>, << >>, << >>, "b.png", << >>),
      Doc(<< >>, << >>, << >>, "a.png", QuadShort),
      Doc(<< >>, << >>, << >>, "a.png", QuadBad),
      Doc(<< >>, << >>, << >>, "missing.png", QuadA) }

\* batches of paths given to add_media
Batches ==
    { << >>, <<"a.png">>, <<"a.png", "b.png">>, <<"missing.png", "b.png">>,
      <<"corrupt.png">>,
      \* four paths that fail, then one that loads
      <<"missing.png", "missing.png", "corrupt.png", "missing.png", "b.png">> }

----------------------------------------------------------------------------
(* History values *)

\* no document: the value of ev.data when the handler read none
NoDoc == Doc(<< >>, << >>, << >>, "", << >>)

\* pos, button, direction, data, paths: the handler's input; hit: the hit-test
\* result of a press; prev: the index a release or select_next replaced;
\* raised: the handler ended in an exception; warnings: the [WARN] lines it
\* printed; wrote: a move wrote a point; ready: the Projections (by id) whose
\* media gave a frame to a paint pass; drawn: the images that pass drew, in
\* the order drawn; overlay: it drew the overlay
NoEv ==
    [pos |-> <<0, 0>>, button |-> "none", hit |-> <<-1, -1>>, direction |-> 0,
     data |-> NoDoc, paths |-> << >>, prev |-> -1, raised |-> FALSE, warnings |-> 0,
     wrote |-> FALSE, ready |-> {}, drawn |-> << >>, overlay |-> FALSE]

NoGrab == [snap |-> << >>, id |-> 0, handle |-> -1]

\* id: the Projection struck by the last hit press not yet followed by a
\* left release; alive: that object is still in the registry
NoHeld == [id |-> 0, alive |-> FALSE]

----------------------------------------------------------------------------
(* State after Canvas.__init__ *)

Init ==
    /\ projections = << >>
    /\ selected_idx = -1
    /\ drag_idx = -1
    /\ live_warp = TRUE
    /\ show_mesh = TRUE
    /\ \E sz \in Sizes : width = sz[1] /\ height = sz[2]
    /\ lastOp = "init"
    /\ ev = NoEv
    /\ grab = NoGrab
    /\ only_added = TRUE
    /\ held = NoHeld

(* Handlers *)

reset_quad ==
    /\ projections' = ResetQuads(projections, ResetTargets(projections, selected_idx),
                                 width, height)
    /\ lastOp' = "reset_quad"
    /\ only_added' = FALSE
    /\ ev' = NoEv
    /\ grab' = NoGrab
    /\ UNCHANGED <<selected_idx, drag_idx, live_warp, show_mesh, width, height, held>>

add_media(paths) ==
    /\ Len(projections) + Len(SelectSeq(paths, Loadable)) <= MaxProj
    /\ LET r == IF paths = << >>
                THEN [projs |-> projections, warnings |-> 0]
                ELSE AddLoop(paths, 0, default_quad(width, height),
                             Len(projections) * offset_step,
                             [projs |-> projections, warnings |-> 0])
       IN  /\ projections' = r.projs
           /\ selected_idx' = IF paths = << >> THEN selected_idx
                              ELSE SelectAfterAdd(r.projs, selected_idx)
           /\ ev' = [NoEv EXCEPT !.paths = paths, !.warnings = r.warnings]
    /\ lastOp' = "add_media"
    /\ grab' = NoGrab
    /\ UNCHANGED <<drag_idx, live_warp, show_mesh, width, height, only_added, held>>

select_next(direction) ==
    /\ IF SelectNextEmpty(projections)
       THEN /\ selected_idx' = -1
            /\ ev' = [NoEv EXCEPT !.direction = direction, !.prev = selected_idx]
       ELSE IF Len(projections) = 0
       THEN \* integer modulo by zero
            /\ selected_idx' = selected_idx
            /\ ev' = [NoEv EXCEPT !.direction = direction, !.prev = selected_idx,
                                  !.raised = TRUE]
       ELSE /\ selected_idx' = SelectNextIdx(projections, selected_idx, direction)
            /\ ev' = [NoEv EXCEPT !.direction = direction, !.prev = selected_idx]
    /\ lastOp' = "select_next"
    /\ only_added' = FALSE
    /\ grab' = NoGrab
    /\ UNCHANGED <<projections, drag_idx, live_warp, show_mesh, width, height, held>>

mousePressEvent(button, pos) ==
    /\ LET hit == IF button = "left" THEN hit_handle(projections, pos) ELSE <<-1, -1>>
       IN  IF hit[1] # -1
           THEN /\ projections' = RaiseToTop(projections, hit[1])
                /\ selected_idx' = SelectAfterHit(projections, hit[1])
                /\ drag_idx' = hit[2]
                /\ ev' = [NoEv EXCEPT !.pos = pos, !.button = button, !.hit = hit]
                /\ grab' = [snap |-> projections, id |-> projections[hit[1] + 1].id,
                            handle |-> hit[2]]
                /\ held' = [id |-> projections[hit[1] + 1].id, alive |-> TRUE]
           ELSE /\ ev' = [NoEv EXCEPT !.pos = pos, !.button = button]
                /\ grab' = NoGrab
                /\ UNCHANGED <<projections, selected_idx, drag_idx, held>>
    /\ lastOp' = "press"
    /\ only_added' = FALSE
    /\ UNCHANGED <<live_warp, show_mesh, width, height>>

mouseMoveEvent(pos) ==
    /\ IF Dragging(projections, selected_idx, drag_idx)
       THEN IF drag_idx + 1 \in DOMAIN projections[selected_idx + 1].target_quad
            THEN /\ projections' =
                       WriteHandle(projections, selected_idx, drag_idx,
                                   <<Clamp(pos[1], width), Clamp(pos[2], height)>>)
                 /\ ev' = [NoEv EXCEPT !.pos = pos, !.wrote = TRUE]
                 /\ grab' = grab
            ELSE \* list assignment index out of range
                 /\ ev' = [NoEv EXCEPT !.pos = pos, !.raised = TRUE]
                 /\ grab' = NoGrab
                 /\ UNCHANGED projections
       ELSE /\ ev' = [NoEv EXCEPT !.pos = pos]
            /\ grab' = NoGrab
            /\ UNCHANGED projections
    /\ lastOp' = "move"
    /\ only_added' = FALSE
    /\ UNCHANGED <<selected_idx, drag_idx, live_warp, show_mesh, width, height, held>>

mouseReleaseEvent(button) ==
    /\ drag_idx' = ReleaseDrag(button, drag_idx)
    /\ lastOp' = "release"
    /\ only_added' = FALSE
    /\ ev' = [NoEv EXCEPT !.button = button, !.prev = drag_idx]
    /\ grab' = NoGrab
    /\ held' = IF button = "left" THEN NoHeld ELSE held
    /\ UNCHANGED <<projections, selected_idx, live_warp, show_mesh, width, height>>

\* Canvas.deserialize on the document `data`, recorded as handler `op`
LoadInto(data, op) ==
    /\ Len(data.projections) <= MaxProj
    /\ LET r == Load(data, width, height)
       IN  /\ live_warp' = FlagOf(data.live_warp)
           /\ show_mesh' = FlagOf(data.show_mesh)
           /\ projections' = r.projs
           /\ selected_idx' = IF r.raised THEN selected_idx ELSE SelectAfterLoad(r.projs)
           /\ ev' = [NoEv EXCEPT !.data = data, !.raised = r.raised,
                                 !.warnings = r.warnings]
    /\ lastOp' = op
    /\ only_added' = FALSE
    /\ grab' = NoGrab
    /\ held' = IF held = NoHeld THEN NoHeld ELSE [held EXCEPT !.alive = FALSE]
    /\ UNCHANGED <<drag_idx, width, height>>

deserialize(data) == LoadInto(data, "deserialize")

\* save a preset and load it back: deserialize(serialize())
SaveThenLoad == LoadInto(serialize(projections, live_warp, show_mesh), "roundtrip")

Next ==
    \/ reset_quad
    \/ \E paths \in Batches : add_media(paths)
    \/ \E direction \in {1, -1} : select_next(direction)
    \/ \E button \in Buttons, pos \in Positions : mousePressEvent(button, pos)
    \/ \E pos \in Positions : mouseMoveEvent(pos)
    \/ \E button \in Buttons : mouseReleaseEvent(button)
    \/ \E data \in Docs : deserialize(data)
    \/ SaveThenLoad

Spec == Init /\ [][Next]_vars

\* the handlers, each completing without raising
QuietNext ==
    \/ reset_quad /\ ~ev'.raised
    \/ \E paths \in Batches : add_media(paths) /\ ~ev'.raised
    \/ \E direction \in {1, -1} : select_next(direction) /\ ~ev'.raised
    \/ \E button \in Buttons, pos \in Positions :
          mousePressEvent(button, pos) /\ ~ev'.raised
    \/ \E pos \in Positions : mouseMoveEvent(pos) /\ ~ev'.raised
    \/ \E button \in Buttons : mouseReleaseEvent(button) /\ ~ev'.raised
    \/ \E data \in Docs : deserialize(data) /\ ~ev'.raised
    \/ SaveThenLoad /\ ~ev'.raised

QuietSpec == Init /\ [][QuietNext]_vars

----------------------------------------------------------------------------
(* The paint pass *)

\* twice the signed area of the triangle a, b, c
Cross(a, b, c) ==
    (b[1] - a[1]) * (c[2] - a[2]) - (b[2] - a[2]) * (c[1] - a[1])

\* three of the points of the quad lie on one line: the linear system of
\* cv2.getPerspectiveTransform has no unique solution
Degenerate(quad) ==
    \E i, j, k \in DOMAIN quad :
        i < j /\ j < k /\ Cross(quad[i], quad[j], quad[k]) = 0

\* the horizontal ray from px to the right crosses the edge a-b
RayCrosses(px, a, b) ==
    /\ (a[2] > px[2]) # (b[2] > px[2])
    /\ IF b[2] > a[2]
       THEN (px[1] - a[1]) * (b[2] - a[2]) < (px[2] - a[2]) * (b[1] - a[1])
       ELSE (px[1] - a[1]) * (b[2] - a[2]) > (px[2] - a[2]) * (b[1] - a[1])

\* QPainter.setClipPath of the closed path through the points of clip: px is
\* inside it (odd-even fill)
Inside(px, clip) ==
    LET n == Len(clip)
        crossed == { i \in 1 .. n : RayCrosses(px, clip[i], clip[(i % n) + 1]) }
    IN  Cardinality(crossed) % 2 = 1

\* paintEvent, the loop over the Projections from the i-th (1-based) on:
\* one without a frame is passed over; for one with a frame the clip path
\* is built from its first four points and its image drawn under the clip.
\* cv_raises: cv2 raises on an unsolvable system rather than return a matrix
RECURSIVE PaintLoop(_, _, _, _, _, _)
PaintLoop(projs, i, ready, lw, cv_raises, acc) ==
    IF i > Len(projs) THEN acc
    ELSE LET p == projs[i]
         IN  IF p.id \notin ready
             THEN PaintLoop(projs, i + 1, ready, lw, cv_raises, acc)
             ELSE IF Len(p.target_quad) < 4
             THEN \* dst_quad[i]: index out of bounds
                  [acc EXCEPT !.raised = TRUE]
             ELSE IF lw /\ Degenerate(p.target_quad) /\ cv_raises
             THEN [acc EXCEPT !.raised = TRUE]
             ELSE PaintLoop(projs, i + 1, ready, lw, cv_raises,
                    [acc EXCEPT !.drawn =
                        Append(@, [id |-> p.id,
                                   clip |-> SubSeq(p.target_quad, 1, 4),
                                   mode |-> IF lw THEN "warp" ELSE "fit"])])

\* Canvas.draw_overlay raises: quad[i] for i in range(4) on a shorter quad
OverlayRaises(projs, sm) ==
    sm /\ \E k \in DOMAIN projs : Len(projs[k].target_quad) < 4

\* what is on the pixel px once the images of drawn, from the k-th on, are
\* drawn over `shown`: an image warped into a canvas-sized buffer covers
\* every pixel of its clip
RECURSIVE PixelAfter(_, _, _, _)
PixelAfter(drawn, k, px, shown) ==
    IF k > Len(drawn) THEN shown
    ELSE PixelAfter(drawn, k + 1, px,
                    IF Inside(px, drawn[k].clip) THEN drawn[k].id ELSE shown)

\* Canvas.paintEvent; ready: the ids of the Projections whose
\* media.get_frame() is not None at this tick
paintEvent(ready, cv_raises) ==
    /\ LET r == PaintLoop(projections, 1, ready, live_warp, cv_raises,
                          [drawn |-> << >>, raised |-> FALSE])
           overlay_raises == ~r.raised /\ OverlayRaises(projections, show_mesh)
       IN  ev' = [NoEv EXCEPT
                    !.ready = { projections[k].id : k \in DOMAIN projections } \cap ready,
                    !.drawn = r.drawn,
                    !.raised = r.raised \/ overlay_raises,
                    !.overlay = show_mesh /\ ~r.raised /\ ~overlay_raises]
    /\ lastOp' = "paint"
    /\ only_added' = FALSE
    /\ grab' = NoGrab
    /\ UNCHANGED <<projections, selected_idx, drag_idx, live_warp, show_mesh,
                   width, height, held>>

PaintNext ==
    \/ \E paths \in Batches : add_media(paths)
    \/ \E button \in Buttons, pos \in Positions : mousePressEvent(button, pos)
    \/ \E pos \in Positions : mouseMoveEvent(pos)
    \/ \E button \in Buttons : mouseReleaseEvent(button)
    \/ \E data \in Docs : deserialize(data)
    \/ \E ready \in SUBSET (1 .. MaxProj), cv_raises \in BOOLEAN :
          paintEvent(ready, cv_raises)

PaintSpec == Init /\ [][PaintNext]_vars

----------------------------------------------------------------------------
(* The canvas resized mid-session: the registry operations at two sizes *)

\* the size the window opens at, and the size it is resized to
ResizeSizes == { <<1200, 800>>, <<600, 400>> }

\* QWidget.resize: width() and height() change, and nothing of the Canvas
resize(sz) ==
    /\ <<width, height>> # sz
    /\ width' = sz[1]
    /\ height' = sz[2]
    /\ lastOp' = "resize"
    /\ only_added' = FALSE
    /\ ev' = NoEv
    /\ grab' = NoGrab
    /\ UNCHANGED <<projections, selected_idx, drag_idx, live_warp, show_mesh, held>>

ResizeInit ==
    /\ projections = << >>
    /\ selected_idx = -1
    /\ drag_idx = -1
    /\ live_warp = TRUE
    /\ show_mesh = TRUE
    /\ width = 1200
    /\ height = 800
    /\ lastOp = "init"
    /\ ev = NoEv
    /\ grab = NoGrab
    /\ only_added = TRUE
    /\ held = NoHeld

ResizeNext ==
    \/ \E sz \in ResizeSizes : resize(sz)
    \/ reset_quad
    \/ \E paths \in Batches : add_media(paths)
    \/ \E direction \in {1, -1} : select_next(direction)
    \/ \E data \in Docs : deserialize(data)

ResizeSpec == ResizeInit /\ [][ResizeNext]_vars

----------------------------------------------------------------------------
(* Properties *)

\* the 0-based indices of the Projections with a handle under pos
ProjectionsUnder(projs, pos) == { ph[1] : ph \in HandlesUnder(projs, pos) }

\* the largest element of a non-empty set of integers
Highest(S) == CHOOSE m \in S : \A o \in S : o <= m

\* a left press that struck a handle has just run
HitPress == lastOp = "press" /\ ev.hit[1] # -1

\* pos lies on the canvas
OnCanvas(pos) == 0 <= pos[1] /\ pos[1] <= width /\ 0 <= pos[2] /\ pos[2] <= height

\* the point a move has just written
WrittenPoint == projections[selected_idx + 1].target_quad[drag_idx + 1]

\* C1: selected_idx is -1 or a valid index into projections, in every
\* reachable state, also after a deserialize that raised part-way.
C1_SelectedIdxValid ==
    selected_idx = -1 \/ (0 <= selected_idx /\ selected_idx < Len(projections))

\* C2: every Projection of the registry has a target_quad of exactly 4
\* points, also after deserialize of a legacy document whose top-level
\* target_quad has another length.
C2_QuadsHaveFourPoints ==
    \A k \in DOMAIN projections : Len(projections[k].target_quad) = 4

\* C3: a left press within tolerance of handles of two or more Projections
\* resolves to the top-most of them (highest index), and that Projection is
\* the one selected and promoted to index N-1.
C3_TopMostWins ==
    [][ (lastOp' = "press" /\ ev'.button = "left"
            /\ Cardinality(ProjectionsUnder(projections, ev'.pos)) >= 2)
        => LET top == Highest(ProjectionsUnder(projections, ev'.pos))
           IN  /\ ev'.hit[1] = top
               /\ selected_idx' = Len(projections') - 1
               /\ projections'[Len(projections')] = projections[top + 1] ]_vars

\* C4: after a left press whose hit-test returned (p, h): drag_idx = h, the
\* Projection that was at index p is at index len(projections)-1, and
\* selected_idx = len(projections)-1.
C4_PressSelectsAndPromotes ==
    [][ (lastOp' = "press" /\ ev'.hit[1] # -1)
        => /\ drag_idx' = ev'.hit[2]
           /\ Len(projections') = Len(projections)
           /\ projections'[Len(projections')] = projections[ev'.hit[1] + 1]
           /\ selected_idx' = Len(projections') - 1 ]_vars

\* C4 witness: a press struck the bottom one of two Projections, which is
\* now selected on top.
C4_Witness ==
    /\ HitPress
    /\ ev.hit[1] = 0
    /\ Len(projections) = 2
    /\ selected_idx = 1
    /\ drag_idx = ev.hit[2]

\* C5: after a press that hit handle h of Projection P and any number of
\* moves, the registry holds the same Projections (by identity) as before
\* the press, and the only point that may differ from its value before the
\* press is point h of P.
C5_DragChangesOnlyStruckPoint ==
    grab # NoGrab =>
        /\ Len(projections) = Len(grab.snap)
        /\ \A j \in DOMAIN grab.snap :
             \E k \in DOMAIN projections :
                /\ projections[k].id = grab.snap[j].id
                /\ projections[k].path = grab.snap[j].path
                /\ DOMAIN projections[k].target_quad = DOMAIN grab.snap[j].target_quad
                /\ \A i \in DOMAIN grab.snap[j].target_quad :
                      \/ projections[k].target_quad[i] = grab.snap[j].target_quad[i]
                      \/ (grab.snap[j].id = grab.id /\ i = grab.handle + 1)

\* C5 witness: two Projections, and a move of the drag has changed the
\* struck point of the struck Projection.
C5_Witness ==
    /\ grab # NoGrab
    /\ lastOp = "move"
    /\ ev.wrote
    /\ Len(projections) = 2
    /\ \E j \in DOMAIN grab.snap :
          /\ grab.snap[j].id = grab.id
          /\ grab.snap[j].id = projections[selected_idx + 1].id
          /\ grab.snap[j].target_quad[grab.handle + 1] # WrittenPoint

\* C6: the point a move writes during a drag lies on the canvas
\* (0 <= x <= width, 0 <= y <= height) for any pointer position, and is the
\* pointer position itself when that lies on the canvas.
C6_MoveClampsToCanvas ==
    (lastOp = "move" /\ ev.wrote) =>
        /\ OnCanvas(WrittenPoint)
        /\ (OnCanvas(ev.pos) => WrittenPoint = ev.pos)

\* C6 witness: a move at a pointer position left of and below the canvas
\* wrote the nearest canvas corner.
C6_Witness ==
    /\ lastOp = "move"
    /\ ev.wrote
    /\ ev.pos[1] < 0
    /\ ev.pos[2] > height
    /\ WrittenPoint = <<0, height>>

\* C7 as stated: any release, whatever its button, leaves drag_idx = -1.
C7_AnyReleaseEndsDrag == lastOp = "release" => drag_idx = -1

\* C7 as amended: a left-button release leaves drag_idx = -1 and a release
\* of another button leaves drag_idx as it was; once drag_idx is -1 it stays
\* -1 until a press hits a handle, and no move modifies any quad meanwhile.
C7_LeftReleaseEndsDrag ==
    /\ []((lastOp = "release" /\ ev.button = "left") => drag_idx = -1)
    /\ [][ (lastOp' = "release" /\ ev'.button # "left") => drag_idx' = drag_idx ]_vars
    /\ [][ (drag_idx = -1 /\ ~(lastOp' = "press" /\ ev'.hit[1] # -1))
             => drag_idx' = -1 ]_vars
    /\ [][ (drag_idx = -1 /\ lastOp' = "move") => projections' = projections ]_vars

\* C7 witness: a left release has ended a drag.
C7_Witness ==
    /\ lastOp = "release"
    /\ ev.button = "left"
    /\ ev.prev >= 0
    /\ drag_idx = -1

\* C8: select_next(+1 or -1) on an empty registry leaves selected_idx = -1
\* and does not raise, whatever selected_idx was.
C8_SelectNextOnEmpty ==
    (lastOp = "select_next" /\ projections = << >>) =>
        /\ selected_idx = -1
        /\ ~ev.raised

\* C8 witness: select_next ran on an empty registry whose selected_idx was
\* not -1.
C8_Witness ==
    /\ lastOp = "select_next"
    /\ projections = << >>
    /\ ev.prev # -1
    /\ selected_idx = -1

\* the registries hold the same number of Projections, in the same order,
\* with the same paths and quads
SameContent(before, after) ==
    /\ Len(after) = Len(before)
    /\ \A k \in DOMAIN before :
          /\ after[k].path = before[k].path
          /\ after[k].target_quad = before[k].target_quad

\* C9: deserialize(serialize(state)) reproduces the Projections (count,
\* order, paths, quads) and the live_warp and show_mesh flags of a state whose
\* media paths all load.
C9_RoundTrip ==
    [][ lastOp' = "roundtrip"
        => /\ ~ev'.raised
           /\ SameContent(projections, projections')
           /\ live_warp' = live_warp
           /\ show_mesh' = show_mesh ]_vars

\* the document lists exactly two items, one with a path that loads and one
\* with a path that does not exist, and no malformed quad
OneValidOneMissing(data) ==
    /\ Len(data.projections) = 2
    /\ \E i, j \in DOMAIN data.projections :
          /\ i # j
          /\ Loadable(data.projections[i].media_path)
          /\ PathExists(data.projections[i].media_path)
          /\ data.projections[j].media_path # ""
          /\ ~PathExists(data.projections[j].media_path)
    /\ \A i \in DOMAIN data.projections : ~Malformed(data.projections[i].target_quad)

\* C10: loading a preset that lists one valid and one nonexistent media path
\* yields exactly one Projection and exactly one warning, and does not fail.
C10_OneLoadedOneWarning ==
    (lastOp = "deserialize" /\ OneValidOneMissing(ev.data)) =>
        /\ ~ev.raised
        /\ Len(projections) = 1
        /\ ev.warnings = 1

\* a target_quad that is malformed or has not exactly 4 points
BadQuad(tq) == Len(tq) # 4 \/ Malformed(tq)

\* the items a document asks to load: its "projections", or else the one
\* item its top-level media_path and target_quad stand for
ItemsOf(data) ==
    IF data.projections # << >> THEN data.projections
    ELSE IF data.media_path # "" THEN << Item(data.media_path, data.target_quad) >>
    ELSE << >>

\* the items of a document whose media loads, in document order
LoadableItems(data) ==
    SelectSeq(ItemsOf(data), LAMBDA item : Loadable(item.media_path))

\* C11: deserialize never raises because of a bad target_quad: every item
\* whose media loads is in the registry, in document order, with the canvas
\* default quad if its target_quad is malformed or has not exactly 4 points
\* (in "projections" or at the top level) and with its own quad otherwise.
C11_BadQuadFallsBack ==
    lastOp = "deserialize" =>
        /\ ~ev.raised
        /\ Len(projections) = Len(LoadableItems(ev.data))
        /\ \A k \in DOMAIN projections :
              LET item == LoadableItems(ev.data)[k]
              IN  /\ projections[k].path = item.media_path
                  /\ projections[k].target_quad =
                        IF BadQuad(item.target_quad)
                        THEN default_quad(width, height)
                        ELSE QuadOf(item.target_quad)

\* the document without its top-level media_path and target_quad
WithoutTopLevel(data) == [data EXCEPT !.media_path = "", !.target_quad = << >>]

\* C12: deserialize of a document with no (or an empty) "projections" and a
\* top-level media_path that loads leaves exactly one Projection with that
\* path, whose quad is the top-level target_quad if given and the canvas
\* default quad otherwise; with a non-empty "projections" the top-level
\* media_path is ignored.
C12_LegacyDocument ==
    lastOp = "deserialize" =>
        /\ (ev.data.projections = << >> /\ Loadable(ev.data.media_path)) =>
              /\ ~ev.raised
              /\ Len(projections) = 1
              /\ projections[1].path = ev.data.media_path
              /\ projections[1].target_quad =
                    IF ev.data.target_quad # << >>
                    THEN QuadOf(ev.data.target_quad)
                    ELSE default_quad(width, height)
        /\ ev.data.projections # << >> =>
              /\ projections = Load(WithoutTopLevel(ev.data), width, height).projs
              /\ \A k \in DOMAIN projections :
                    \E i \in DOMAIN ev.data.projections :
                       projections[k].path = ev.data.projections[i].media_path

\* the paths of a batch that load, in batch order
LoadablePaths(paths) == SelectSeq(paths, Loadable)

\* C13: add_media over a batch leaves the Projections that were in the
\* registry where they were, with their quads, appends nothing for a path
\* that fails to load, and appends one Projection for every path that loads,
\* at the end of the list in batch order, also after a path that failed.
C13_FailedPathsSkipped ==
    [][ lastOp' = "add_media"
        => LET ok == LoadablePaths(ev'.paths)
               n == Len(projections)
           IN  /\ Len(projections') = n + Len(ok)
               /\ SubSeq(projections', 1, n) = projections
               /\ \A k \in DOMAIN ok : projections'[n + k].path = ok[k]
               /\ ev'.warnings = Len(ev'.paths) - Len(ok) ]_vars

\* C13 witness: a batch whose first path failed and whose second loaded has
\* been added to a registry of one Projection, which is still first.
C13_Witness ==
    /\ lastOp = "add_media"
    /\ Len(ev.paths) = 2
    /\ ~Loadable(ev.paths[1])
    /\ Loadable(ev.paths[2])
    /\ ev.warnings = 1
    /\ Len(projections) = 2
    /\ projections[2].path = ev.paths[2]

\* C14: after any sequence of add_media calls (any of the paths failing to
\* load, nothing else run in between) no two Projections of the registry
\* have identical quads.
C14_AddedQuadsDiffer ==
    only_added =>
        \A j, k \in DOMAIN projections :
            j # k => projections[j].target_quad # projections[k].target_quad

\* the default quad of a 600x400 canvas
Quad600x400 == << <<40, 40>>, <<560, 40>>, <<560, 360>>, <<40, 360>> >>

\* reset_quad has just run on two or more Projections, on the canvas resized
\* to 600x400
ResetAt600x400 ==
    lastOp = "reset_quad" /\ Len(projections) >= 2 /\ width = 600 /\ height = 400

\* C15 as stated: with two or more Projections on the canvas resized to
\* 600x400, reset_quad leaves every quad at (40,40), (560,40), (560,360),
\* (40,360).
C15_ResetPlacesEveryQuad ==
    ResetAt600x400 =>
        \A k \in DOMAIN projections : projections[k].target_quad = Quad600x400

\* C15 as amended: there, with a Projection selected, reset_quad leaves the
\* selected Projection's quad at (40,40), (560,40), (560,360), (40,360) and
\* every other Projection as it was; paths and order are as before.
C15_ResetPlacesSelectedQuad ==
    [][ (ResetAt600x400' /\ 0 <= selected_idx /\ selected_idx < Len(projections))
        => /\ Len(projections') = Len(projections)
           /\ selected_idx' = selected_idx
           /\ \A k \in DOMAIN projections :
                 IF k = selected_idx + 1
                 THEN /\ projections'[k].path = projections[k].path
                      /\ projections'[k].target_quad = Quad600x400
                 ELSE projections'[k] = projections[k] ]_vars

\* C15 witness: on the canvas resized to 600x400 reset_quad has put the
\* selected one of two Projections at the 40-pixel inset, and the other has
\* a different quad.
C15_Witness ==
    /\ ResetAt600x400
    /\ 0 <= selected_idx /\ selected_idx < Len(projections)
    /\ projections[selected_idx + 1].target_quad = Quad600x400
    /\ \E k \in DOMAIN projections : projections[k].target_quad # Quad600x400

\* the ids of the images a paint pass drew, in the order drawn
DrawnIds == [k \in DOMAIN ev.drawn |-> ev.drawn[k].id]

\* the ids of the Projections of the registry, in list order
RegistryIds == [k \in DOMAIN projections |-> projections[k].id]

\* C16: in one paint pass a Projection whose media yields no frame is
\* skipped, and every Projection whose media yields a frame is painted, in
\* list order, before and after a skipped one; the pass does not fail.
C16_FramelessSkipped ==
    lastOp = "paint" =>
        /\ ~ev.raised
        /\ DrawnIds = SelectSeq(RegistryIds, LAMBDA id : id \in ev.ready)

\* C17: a paint pass draws nothing for a Projection whose quad has three or
\* more collinear points, draws every other Projection that has a frame, and
\* completes without error.
C17_DegenerateLayerAbsent ==
    lastOp = "paint" =>
        /\ ~ev.raised
        /\ \A k \in DOMAIN projections :
              LET p == projections[k]
              IN  (\E d \in DOMAIN ev.drawn : ev.drawn[d].id = p.id)
                     <=> (p.id \in ev.ready /\ ~Degenerate(p.target_quad))

\* pixels of the 600x400 canvas: in a corner, and inside one, both or the
\* other of two staggered default quads
SamplePixels == { <<20, 20>>, <<60, 60>>, <<300, 200>>, <<590, 390>>, <<100, 300>> }

\* the 1-based indices of the Projections that have a frame and whose quad
\* polygon contains px
ReadyOver(px) ==
    { k \in DOMAIN projections :
        projections[k].id \in ev.ready /\ Inside(px, projections[k].target_quad) }

\* C18: after the image pass of a live-warp paint, each pixel shows the
\* background (0) if it lies inside no quad polygon of a Projection with a
\* frame, and otherwise the image of the highest-index such Projection; each
\* image is drawn under the clip of its own Projection's quad.
C18_TopLayerShows ==
    (lastOp = "paint" /\ live_warp) =>
        /\ ~ev.raised
        /\ \A d \in DOMAIN ev.drawn :
              \E k \in DOMAIN projections :
                 projections[k].id = ev.drawn[d].id
                    /\ ev.drawn[d].clip = projections[k].target_quad
        /\ \A px \in SamplePixels :
              PixelAfter(ev.drawn, 1, px, 0) =
                 IF ReadyOver(px) = {} THEN 0
                 ELSE projections[Highest(ReadyOver(px))].id

\* C19: between a press that hit a handle of Projection P and the left
\* release that ends the drag, every move that writes a point writes it into
\* P's quad, whatever select_next, add_media, reset_quad or deserialize did
\* between the press and the move.
C19_MovesWriteHeldProjection ==
    (lastOp = "move" /\ ev.wrote) =>
        /\ held.alive
        /\ projections[selected_idx + 1].id = held.id

\* sel is a valid index into projs
ValidSelection(projs, sel) == 0 <= sel /\ sel < Len(projs)

\* the selection after n calls of select_next(direction) from sel
RECURSIVE SelectNextTimes(_, _, _, _)
SelectNextTimes(projs, sel, direction, n) ==
    IF n = 0 THEN sel
    ELSE SelectNextTimes(projs, SelectNextIdx(projs, sel, direction), direction, n - 1)

\* C20: on a registry of N >= 1 Projections with a valid selection s,
\* select_next(d), d = +1 or -1, sets selected_idx to (s + d) mod N and
\* leaves the list, its order and its quads as they were; select_next(+1)
\* followed by select_next(-1) restores s; N consecutive select_next(+1)
\* restore s.
C20_SelectNextCycles ==
    /\ [][ (lastOp' = "select_next" /\ ValidSelection(projections, selected_idx))
             => /\ selected_idx' = (selected_idx + ev'.direction) % Len(projections)
                /\ projections' = projections
                /\ ~ev'.raised ]_vars
    /\ [][ (/\ lastOp = "select_next" /\ ev.direction = 1
            /\ lastOp' = "select_next" /\ ev'.direction = -1
            /\ ValidSelection(projections, ev.prev))
             => selected_idx' = ev.prev ]_vars
    /\ [](ValidSelection(projections, selected_idx)
             => SelectNextTimes(projections, selected_idx, 1, Len(projections))
                   = selected_idx)

\* C20 witness: select_next(+1) on the last of two Projections has wrapped
\* round to the first.
C20_Witness ==
    /\ lastOp = "select_next"
    /\ ~ev.raised
    /\ ev.direction = 1
    /\ Len(projections) = 2
    /\ ev.prev = 1
    /\ selected_idx = 0

\* the inset rectangle of the canvas: margin = 10% of its shorter side
InsetRectangle ==
    LET m == Min(width, height) \div 10
    IN  << <<m, m>>, <<width - m, m>>, <<width - m, height - m>>, <<m, height - m>> >>

\* C21: reset_quad with a valid selection replaces only the selected
\* Projection's quad with the default inset rectangle and leaves every other
\* Projection's quad, the list order, selected_idx and drag_idx unchanged;
\* with no valid selection it replaces the quad of every Projection.
C21_ResetQuadFrame ==
    [][ lastOp' = "reset_quad"
        => /\ Len(projections') = Len(projections)
           /\ selected_idx' = selected_idx
           /\ drag_idx' = drag_idx
           /\ \A k \in DOMAIN projections :
                 /\ projections'[k].id = projections[k].id
                 /\ projections'[k].path = projections[k].path
                 /\ IF ValidSelection(projections, selected_idx) /\ k # selected_idx + 1
                    THEN projections'[k].target_quad = projections[k].target_quad
                    ELSE projections'[k].target_quad = InsetRectangle ]_vars

\* C21 witness: during a drag reset_quad has put the selected one of two
\* Projections on the inset rectangle; the other has a different quad.
C21_Witness ==
    /\ lastOp = "reset_quad"
    /\ Len(projections) = 2
    /\ drag_idx >= 0
    /\ ValidSelection(projections, selected_idx)
    /\ projections[selected_idx + 1].target_quad = InsetRectangle
    /\ \E k \in DOMAIN projections : projections[k].target_quad # InsetRectangle

\* how often the Projection p occurs in the list
Occurrences(projs, p) == Cardinality({ k \in DOMAIN projs : projs[k] = p })

\* the list without the Projection of identity id
Without(projs, id) == SelectSeq(projs, LAMBDA p : p.id # id)

C23_SelectedUnlessEmpty ==
    /\ selected_idx = -1 <=> projections = << >>
    /\ projections # << >> => ValidSelection(projections, selected_idx)
    /\ (lastOp = "reset_quad" /\ ~ValidSelection(projections, selected_idx))
          => projections = << >>

\* C23 witness: add_media on an empty registry has appended a Projection
\* and selected it.
C23_Witness ==
    /\ lastOp = "add_media"
    /\ only_added
    /\ Len(projections) = 1
    /\ Len(LoadablePaths(ev.paths)) = 1
    /\ selected_idx = 0

====
